---- MODULE Spec2Model ----
(***************************************************************************)
(* braincrub: a Brainfuck parser (src/src/parser.rs) and interpreter       *)
(* (src/src/interpreter.rs).  Node indices are 0-based as in the Rust      *)
(* code; the node stored at index i of a Vec is element i + 1 of the       *)
(* sequence that models it.                                                *)
(***************************************************************************)
EXTENDS Integers, Sequences, FiniteSets, TLC

\* ------------------------------------------------------------------ bounds
MaxSrcLen == 4
MaxTape == 2
MaxInputCode == 3
MaxReads == 10
MaxSharedLen == 2
MaxIncrements == 127
MaxFileLen == 2
MaxMemoryArgument == 30001
MaxLimitArgument == 100001
MaxTextLen == 3

\* ------------------------------------------------------- program constants
U8Max == 255
AsciiMax == 127
MinReads == 1
DefaultMemorySize == 3000
DefaultReads == 60000
MinMemorySize == 1
MemorySizeCap == 30000
ReadsCap == 100000

\* ------------------------------------------------------------ source text
\* The eight instruction characters and one character that is no instruction.
Instructions == {">", "<", "+", "-", ",", ".", "[", "]"}
Alphabet == Instructions \cup {"x"}
Sources == UNION {[1..n -> Alphabet] : n \in 0..MaxSrcLen}

\* ------------------------------------------------------------ Result<T, E>
Ok(v) == [tag |-> "Ok", value |-> v]
Err(e) == [tag |-> "Err", error |-> e]
IsOk(r) == r.tag = "Ok"
IsErr(r) == r.tag = "Err"

\* ----------------------------------------------------------------- parser
\* The classifier with a default arm that yields an instruction.
map_char_defaulting_to_output(token) ==
    CASE token = ">" -> "MovePointerRight"
      [] token = "<" -> "MovePointerLeft"
      [] token = "+" -> "IncrementByOneCurrentCell"
      [] token = "-" -> "DecrementByOneCurrentCell"
      [] token = "," -> "InputCommand"
      [] token = "[" -> "LoopStart"
      [] token = "]" -> "LoopEnd"
      [] OTHER -> "OutputCommand"

map_char_to_brainfuck_operation(token) ==
    CASE token = ">" -> "MovePointerRight"
      [] token = "<" -> "MovePointerLeft"
      [] token = "+" -> "IncrementByOneCurrentCell"
      [] token = "-" -> "DecrementByOneCurrentCell"
      [] token = "," -> "InputCommand"
      [] token = "." -> "OutputCommand"
      [] token = "[" -> "LoopStart"
      [] token = "]" -> "LoopEnd"
      [] OTHER -> "None"

Command(operation, next_position) ==
    [node |-> "Command", operation |-> operation, next_position |-> next_position]

\* The Loop node with its two targets taken one for the other.
LoopWithTargetsSwapped(operation, next_position_as_true, next_position_as_false) ==
    [node |-> "Loop", operation |-> operation,
     next_position_as_true |-> next_position_as_false,
     next_position_as_false |-> next_position_as_true]

Loop(operation, next_position_as_true, next_position_as_false) ==
    [node |-> "Loop", operation |-> operation,
     next_position_as_true |-> next_position_as_true,
     next_position_as_false |-> next_position_as_false]

\* vec[index] = node, on a Vec indexed from 0.
VecSet(vec, index, node) == [vec EXCEPT ![index + 1] = node]

\* The locals of from_source_to_node_ast before the first character is read.
ParserStart ==
    [loop_start_position |-> <<>>, program_ast_vec |-> <<>>,
     iter_chars |-> 0, error |-> "None"]

\* ParseLoopStart that appends the placeholder and forgets the push.
ParseLoopStartWithoutPush(st) ==
    [st EXCEPT
       !.program_ast_vec =
           Append(@, Command("LoopStart", Len(st.program_ast_vec) + 1))]

\* Some(LoopStart): push the index the node will have, append the placeholder.
ParseLoopStart(st) ==
    [st EXCEPT
       !.loop_start_position = Append(@, Len(st.program_ast_vec)),
       !.program_ast_vec =
           Append(@, Command("LoopStart", Len(st.program_ast_vec) + 1))]

\* The `]` arm without the rewrite: the placeholder stays in the sequence.
ParseLoopEndWithoutRewrite(st) ==
    IF Len(st.loop_start_position) = 0
    THEN [st EXCEPT !.error = "MissingOpenLoop"]
    ELSE LET last_position_recorded ==
                 st.loop_start_position[Len(st.loop_start_position)]
         IN  [st EXCEPT
                !.loop_start_position = SubSeq(@, 1, Len(@) - 1),
                !.program_ast_vec =
                    Append(@, Command("LoopEnd", last_position_recorded))]

\* ParseLoopEnd with the exit target one too far: past the node after the
\* loop-end.
ParseLoopEndExitsTooFar(st) ==
    IF Len(st.loop_start_position) = 0
    THEN [st EXCEPT !.error = "MissingOpenLoop"]
    ELSE LET last_position_recorded ==
                 st.loop_start_position[Len(st.loop_start_position)]
             pushed ==
                 Append(st.program_ast_vec,
                        Command("LoopEnd", last_position_recorded))
         IN  [st EXCEPT
                !.loop_start_position = SubSeq(@, 1, Len(@) - 1),
                !.program_ast_vec =
                    VecSet(pushed, last_position_recorded,
                           Loop("LoopStart", last_position_recorded + 1,
                                Len(pushed) + 1))]

\* ParseLoopEnd with the exit target one short: the loop-end node's own index.
ParseLoopEndExitsOnLoopEnd(st) ==
    IF Len(st.loop_start_position) = 0
    THEN [st EXCEPT !.error = "MissingOpenLoop"]
    ELSE LET last_position_recorded ==
                 st.loop_start_position[Len(st.loop_start_position)]
             pushed ==
                 Append(st.program_ast_vec,
                        Command("LoopEnd", last_position_recorded))
         IN  [st EXCEPT
                !.loop_start_position = SubSeq(@, 1, Len(@) - 1),
                !.program_ast_vec =
                    VecSet(pushed, last_position_recorded,
                           Loop("LoopStart", last_position_recorded + 1,
                                Len(pushed) - 1))]

\* Some(LoopEnd): pop; None -> return Err(MissingOpenLoop), Some -> append the
\* loop-end and rewrite the popped loop-start in place.
ParseLoopEnd(st) ==
    IF Len(st.loop_start_position) = 0
    THEN [st EXCEPT !.error = "MissingOpenLoop"]
    ELSE LET last_position_recorded ==
                 st.loop_start_position[Len(st.loop_start_position)]
             pushed ==
                 Append(st.program_ast_vec,
                        Command("LoopEnd", last_position_recorded))
         IN  [st EXCEPT
                !.loop_start_position = SubSeq(@, 1, Len(@) - 1),
                !.program_ast_vec =
                    VecSet(pushed, last_position_recorded,
                           Loop("LoopStart", last_position_recorded + 1,
                                Len(pushed)))]

\* The command arm putting the node at the front of the sequence.
ParseCommandPrepending(st, value) ==
    [st EXCEPT
       !.program_ast_vec = <<Command(value, Len(st.program_ast_vec) + 1)>> \o @]

\* The command arm with next_position one too far: the next node is skipped.
ParseCommandSkippingNext(st, value) ==
    [st EXCEPT
       !.program_ast_vec = Append(@, Command(value, Len(st.program_ast_vec) + 2))]

\* Some(value): a straight-line command falling through to the next index.
ParseCommand(st, value) ==
    [st EXCEPT
       !.program_ast_vec = Append(@, Command(value, Len(st.program_ast_vec) + 1))]

\* One iteration of `while let Some(token) = iter_chars.next()`.
ParseToken(st, token) ==
    LET operation == map_char_to_brainfuck_operation(token)
        read == [st EXCEPT !.iter_chars = @ + 1]
    IN  CASE operation = "LoopStart" -> ParseLoopStart(read)
          [] operation = "LoopEnd" -> ParseLoopEnd(read)
          [] operation = "None" -> read
          [] OTHER -> ParseCommand(read, operation)

\* The scan without the early return: it reads on after a failure.
RECURSIVE ParseCharsReadsOn(_, _)
ParseCharsReadsOn(source_code, st) ==
    IF st.iter_chars >= Len(source_code)
    THEN st
    ELSE ParseCharsReadsOn(source_code,
                           ParseToken(st, source_code[st.iter_chars + 1]))

\* The scan: stops at the first `return Err`, else runs to the end of the text.
RECURSIVE ParseChars(_, _)
ParseChars(source_code, st) ==
    IF st.iter_chars >= Len(source_code) \/ st.error # "None"
    THEN st
    ELSE ParseChars(source_code, ParseToken(st, source_code[st.iter_chars + 1]))

\* The locals of from_source_to_node_ast when it returns.
ParserEnd(source_code) == ParseChars(source_code, ParserStart)

\* The return without the check for loop-starts left on the stack.
ParserReturnWithoutStackCheck(st) ==
    IF st.error # "None" THEN Err(st.error) ELSE Ok(st.program_ast_vec)

ParserReturn(st) ==
    IF st.error # "None" THEN Err(st.error)
    ELSE IF Len(st.loop_start_position) > 0 THEN Err("MissingTerminantedLoop")
    ELSE Ok(st.program_ast_vec)

from_source_to_node_ast(source_code) == ParserReturn(ParserEnd(source_code))

\* ------------------------------------------------------------- Option<T>
None == [tag |-> "None"]
Some(v) == [tag |-> "Some", value |-> v]

\* ------------------------------------------------------------ memory tape
\* BrainfuckMemory::new(size): `size` zeroed cells and the cursor on cell 0.
BrainfuckMemoryNew(size) == [memory |-> [i \in 1..size |-> 0], position |-> 0]

get_current_cell_value(tape) == tape.memory[tape.position + 1]

get_position(tape) == tape.position

\* update(f): `outcome` is f applied to the current cell; Ok replaces the cell,
\* Err is handed back and the cell is left as it was.
update_memory_cell_value(tape, outcome) ==
    IF IsOk(outcome)
    THEN [result |-> Ok("unit"),
          tape |-> [tape EXCEPT !.memory[tape.position + 1] = outcome.value]]
    ELSE [result |-> outcome, tape |-> tape]

\* move(delta) that checks the lower end of the tape only.
move_pointer_position_unchecked_above(tape, delta) ==
    IF tape.position + delta < 0
    THEN [result |-> Err("OutOfRange"), tape |-> tape]
    ELSE [result |-> Ok("unit"),
          tape |-> [tape EXCEPT !.position = tape.position + delta]]

\* move(delta): fails, without moving, when the cursor would leave the tape.
move_pointer_position(tape, delta) ==
    IF tape.position + delta < 0 \/ tape.position + delta >= Len(tape.memory)
    THEN [result |-> Err("OutOfRange"), tape |-> tape]
    ELSE [result |-> Ok("unit"),
          tape |-> [tape EXCEPT !.position = tape.position + delta]]

\* ------------------------------------------------------------ I/O values
ProgramValue(char) == [char |-> char]

\* The conversion keeping the printable codes only.
AsciiCharFromU8Printable(byte) ==
    IF byte >= 32 /\ byte < AsciiMax THEN Some(byte) ELSE None

\* The conversion without its range check.
AsciiCharFromU8Unchecked(byte) == Some(byte)

\* ascii::Char::from_u8: Some for a 7-bit code, None above.
AsciiCharFromU8(byte) == IF byte <= AsciiMax THEN Some(byte) ELSE None

\* The conversion with the control characters dropped.
ProgramValueIntoU8Printable(value) == IF value.char >= 32 THEN value.char ELSE 0

\* impl Into<u8> for ProgramValue.
ProgramValueIntoU8(value) == value.char

\* What the Input collaborator may hand back to one get_input call.
InputCodes == (0..MaxInputCode) \cup {AsciiMax}
InputResults == {Ok(ProgramValue(c)) : c \in InputCodes} \cup {Err("Unknown")}

\* ---------------------------------------------------------------- state
VARIABLES
    source,                  \* the source text handed to the parser
    parser,                  \* from_source_to_node_ast's locals when it returned
    parsed,                  \* Option of from_source_to_node_ast's result
    memory,                  \* Interpreter.memory
    ast_program,             \* Interpreter.ast_program
    program_counter,         \* Interpreter.program_counter
    display,                 \* the values handed to Interpreter.display.print
    input_calls,             \* the number of Interpreter.input.get_input calls
    limit_read_instructions, \* the configured instruction ceiling
    reads,                   \* instructions dispatched by the current run
    position,                \* run's local `position`
    run_state,               \* "unbuilt", "idle", "running" or "returned"
    result,                  \* Option of run's result
    loops,                   \* history: per node, the current activation of its loop
    input_value,             \* run's local `input_value`: the last get_input result
    shared_ast,              \* a node sequence that several interpreters borrow
    engines,                 \* the interpreters borrowing `shared_ast`, by number
    matches,                 \* main's `matches.subcommand()`: "lint" or "run"
    source_code,             \* Option of read_source_code_file's result
    exit,                    \* Option of how the process ended
    subject,                 \* a function of the program and the argument given to it
    outcome                  \* Option of what that function returned

vars == <<source, parser, parsed, memory, ast_program, program_counter, display,
          input_calls, limit_read_instructions, reads, position, run_state,
          result, loops, input_value, shared_ast, engines, matches,
          source_code, exit, subject, outcome>>

parser_vars == <<source, parser, parsed>>
engine_vars == <<memory, ast_program, program_counter, display, input_calls,
                 limit_read_instructions>>
run_vars == <<reads, position, run_state, result, loops, input_value>>
pair_vars == <<shared_ast, engines>>
cli_vars == <<matches, source_code, exit>>
function_vars == <<subject, outcome>>

\* A source text not parsed yet, and no interpreter built.
Init ==
    /\ source \in Sources
    /\ parser = ParserStart
    /\ parsed = None
    /\ memory = None
    /\ ast_program = None
    /\ program_counter = None
    /\ display = <<>>
    /\ input_calls = 0
    /\ limit_read_instructions = 0
    /\ reads = 0
    /\ position = 0
    /\ run_state = "unbuilt"
    /\ result = None
    /\ loops = <<>>
    /\ input_value = None
    /\ shared_ast = <<>>
    /\ engines = <<>>
    /\ matches = "run"
    /\ source_code = Some(Ok(source))
    /\ exit = None
    /\ subject = None
    /\ outcome = None

\* ---------------------------------------------------------------- parse
Parse ==
    /\ source_code = Some(Ok(source))
    /\ parsed = None
    /\ parser' = ParserEnd(source)
    /\ parsed' = Some(from_source_to_node_ast(source))
    /\ UNCHANGED <<cli_vars, function_vars, pair_vars, source, engine_vars, run_vars>>

\* ------------------------------------------------------------ interpreter
\* The tapes a caller hands to Interpreter::new: fresh from BrainfuckMemory::new,
\* or one whose cells earlier use has driven to the top value of a cell (a u8
\* cell reaches it by increments alone: `+[+]` stops there).
Tapes(size) ==
    {BrainfuckMemoryNew(size),
     [memory |-> [i \in 1..size |-> U8Max], position |-> 0]}

\* The instruction ceilings a run is configured with: the least that
\* limit_read_instructions_parser accepts, and the largest the model follows.
Limits == {MinReads, MaxReads}

\* Interpreter::new, called as main does once the source has parsed.
InterpreterNew ==
    /\ matches = "run"
    /\ run_state = "unbuilt"
    /\ parsed # None
    /\ IsOk(parsed.value)
    /\ \E memory_size \in 1..MaxTape : memory' \in Tapes(memory_size)
    /\ ast_program' = None
    /\ program_counter' = None
    /\ limit_read_instructions' \in Limits
    /\ run_state' = "idle"
    /\ UNCHANGED <<cli_vars, function_vars, pair_vars, parser_vars, display, input_calls, reads, position, result,
                   loops,
                   input_value>>

load_ast_program ==
    /\ parsed # None
    /\ IsOk(parsed.value)
    /\ ast_program = None
    /\ run_state = "idle"
    /\ ast_program' = Some(parsed.value.value)
    /\ UNCHANGED <<cli_vars, function_vars, pair_vars, parser_vars, memory, program_counter, display, input_calls,
                   limit_read_instructions, run_vars>>

\* The empty check with the zero-length arm left out.
IsEmptyASTOnlyWhenNone(program) == program = None

\* The match at the top of run: no program, or a program of zero nodes.
IsEmptyAST(program) ==
    \/ program = None
    \/ program # None /\ Len(program.value) = 0

NoLoopHistory(ast) ==
    [i \in 1..Len(ast) |-> [active |-> FALSE, first_value |-> 0, body_runs |-> 0]]

RunEmptyAST ==
    /\ run_state = "idle"
    /\ IsEmptyAST(ast_program)
    /\ run_state' = "returned"
    /\ result' = Some(Err("EmptyAST"))
    /\ UNCHANGED <<cli_vars, function_vars, pair_vars, parser_vars, engine_vars, reads, position, loops,
                   input_value>>

RunStart ==
    /\ run_state = "idle"
    /\ ~IsEmptyAST(ast_program)
    /\ run_state' = "running"
    /\ position' = 0
    /\ reads' = 0
    /\ loops' = NoLoopHistory(ast_program.value)
    /\ UNCHANGED <<cli_vars, function_vars, pair_vars, parser_vars, engine_vars, result,
                   input_value>>

\* ast.get(position)
HasNode == ast_program # None /\ position < Len(ast_program.value)
CurrentNode == ast_program.value[position + 1]

\* The arm of `match node` that a node selects.
Arm(node) ==
    CASE node.node = "Command"
           /\ node.operation \in {"IncrementByOneCurrentCell",
                  "DecrementByOneCurrentCell", "MovePointerRight",
                  "MovePointerLeft", "OutputCommand", "InputCommand", "LoopEnd"}
           -> node.operation
      [] node.node = "Loop" /\ node.operation = "LoopStart" -> "Loop"
      [] OTHER -> "UnknownASTNode"

\* The guard comparing after the dispatch: one instruction too many.
WithinBudgetInclusive == reads <= limit_read_instructions

\* The guard stopping one instruction early.
WithinBudgetOneShort == reads + 1 < limit_read_instructions

\* The budget guard lets one more instruction through.
WithinBudget == reads < limit_read_instructions

Dispatching(arm) ==
    /\ run_state = "running"
    /\ HasNode
    /\ WithinBudget
    /\ Arm(CurrentNode) = arm

\* The increment closure with value.wrapping_add(1).
WrappingAdd(value) == Ok((value + 1) % (U8Max + 1))

\* value.checked_add(1).map_or_else(|| Err(CellOverflow), Ok)
CheckedAdd(value) ==
    IF value + 1 > U8Max THEN Err("CellOverflow") ELSE Ok(value + 1)

\* value.checked_sub(1).map_or_else(|| Err(CellUnderflow), Ok)
CheckedSub(value) ==
    IF value - 1 < 0 THEN Err("CellUnderflow") ELSE Ok(value - 1)

\* The increment arm that also moves the cursor on when a cell follows.
ExecIncrementAdvancingCursor ==
    /\ Dispatching("IncrementByOneCurrentCell")
    /\ position' = CurrentNode.next_position
    /\ memory' = move_pointer_position(
                     update_memory_cell_value(
                         memory, CheckedAdd(get_current_cell_value(memory))).tape,
                     1).tape
    /\ program_counter' = Some("IncrementByOneCurrentCell")
    /\ reads' = reads + 1
    /\ UNCHANGED <<cli_vars, function_vars, pair_vars, parser_vars, ast_program, display, input_calls,
                   limit_read_instructions, run_state, result, loops,
                   input_value>>

ExecIncrement ==
    /\ Dispatching("IncrementByOneCurrentCell")
    /\ position' = CurrentNode.next_position
    /\ memory' = update_memory_cell_value(
                     memory, CheckedAdd(get_current_cell_value(memory))).tape
    /\ program_counter' = Some("IncrementByOneCurrentCell")
    /\ reads' = reads + 1
    /\ UNCHANGED <<cli_vars, function_vars, pair_vars, parser_vars, ast_program, display, input_calls,
                   limit_read_instructions, run_state, result, loops,
                   input_value>>

ExecDecrement ==
    /\ Dispatching("DecrementByOneCurrentCell")
    /\ position' = CurrentNode.next_position
    /\ memory' = update_memory_cell_value(
                     memory, CheckedSub(get_current_cell_value(memory))).tape
    /\ program_counter' = Some("DecrementByOneCurrentCell")
    /\ reads' = reads + 1
    /\ UNCHANGED <<cli_vars, function_vars, pair_vars, parser_vars, ast_program, display, input_calls,
                   limit_read_instructions, run_state, result, loops,
                   input_value>>

\* The move arms with the result dropped, as `let _ =` drops the update's.
MoveNeverFatal(result_move) == FALSE

\* if result_move.is_err() { return Err(OutOfRangeMemoryAccess) }
MoveIsFatal(result_move) == IsErr(result_move)

\* The two move arms: the same code but for the delta and the operation.
ExecMove(operation, delta) ==
    LET result_move == move_pointer_position(memory, delta)
    IN  /\ Dispatching(operation)
        /\ position' = CurrentNode.next_position
        /\ memory' = result_move.tape
        /\ reads' = reads + 1
        /\ IF MoveIsFatal(result_move.result)
           THEN /\ run_state' = "returned"
                /\ result' = Some(Err("OutOfRangeMemoryAccess"))
                /\ UNCHANGED program_counter
           ELSE /\ program_counter' = Some(operation)
                /\ UNCHANGED <<run_state, result>>
        /\ UNCHANGED <<cli_vars, function_vars, pair_vars, parser_vars, ast_program, display, input_calls,
                       limit_read_instructions, loops,
                   input_value>>

ExecMoveRight == ExecMove("MovePointerRight", 1)

ExecMoveLeft == ExecMove("MovePointerLeft", -1)

\* The output arm printing the character twice.
ExecOutputTwice ==
    LET character == AsciiCharFromU8(get_current_cell_value(memory))
    IN  /\ Dispatching("OutputCommand")
        /\ position' = CurrentNode.next_position
        /\ display' = IF character # None
                      THEN display \o <<ProgramValue(character.value),
                                        ProgramValue(character.value)>>
                      ELSE display
        /\ program_counter' = Some("OutputCommand")
        /\ reads' = reads + 1
        /\ UNCHANGED <<cli_vars, function_vars, pair_vars, parser_vars, memory, ast_program, input_calls,
                       limit_read_instructions, run_state, result, loops,
                       input_value>>

ExecOutput ==
    LET character == AsciiCharFromU8(get_current_cell_value(memory))
    IN  /\ Dispatching("OutputCommand")
        /\ position' = CurrentNode.next_position
        /\ display' = IF character # None
                      THEN Append(display, ProgramValue(character.value))
                      ELSE display
        /\ program_counter' = Some("OutputCommand")
        /\ reads' = reads + 1
        /\ UNCHANGED <<cli_vars, function_vars, pair_vars, parser_vars, memory, ast_program, input_calls,
                       limit_read_instructions, run_state, result, loops,
                   input_value>>

\* The Ok arm with the value added to the cell, not put in its place.
InputAdded(tape, answer) ==
    IF IsOk(answer)
    THEN update_memory_cell_value(
             tape, Ok((get_current_cell_value(tape)
                           + ProgramValueIntoU8(answer.value)) % (U8Max + 1))).tape
    ELSE tape

\* match input_value: Ok(value) overwrites the cell with value.into(), Err
\* prints a notice and leaves the tape.
InputStored(tape, answer) ==
    IF IsOk(answer)
    THEN update_memory_cell_value(tape, Ok(ProgramValueIntoU8(answer.value))).tape
    ELSE tape

ExecInput ==
    /\ Dispatching("InputCommand")
    /\ position' = CurrentNode.next_position
    /\ input_calls' = input_calls + 1
    /\ input_value' \in {Some(answer) : answer \in InputResults}
    /\ memory' = InputStored(memory, input_value'.value)
    /\ reads' = reads + 1
    /\ UNCHANGED <<cli_vars, function_vars, pair_vars, parser_vars, ast_program, program_counter, display,
                   limit_read_instructions, run_state, result, loops>>

\* The loop-end arm going on to the next node instead of back to the loop.
ExecLoopEndFallingThrough ==
    /\ Dispatching("LoopEnd")
    /\ position' = position + 1
    /\ reads' = reads + 1
    /\ UNCHANGED <<cli_vars, function_vars, pair_vars, parser_vars, engine_vars, run_state, result, loops,
                   input_value>>

ExecLoopEnd ==
    /\ Dispatching("LoopEnd")
    /\ position' = CurrentNode.next_position
    /\ reads' = reads + 1
    /\ UNCHANGED <<cli_vars, function_vars, pair_vars, parser_vars, engine_vars, run_state, result, loops,
                   input_value>>

\* The Loop arm with the test off by one.
LoopTargetAboveOne(loop_node, value) ==
    IF value > 1 THEN loop_node.next_position_as_true
    ELSE loop_node.next_position_as_false

\* if self.memory.get_current_cell_value() > 0 { as_true } else { as_false }
LoopTarget(loop_node, value) ==
    IF value > 0 THEN loop_node.next_position_as_true
    ELSE loop_node.next_position_as_false

\* History of the loop at `index`: the cell value its current activation began
\* with and the number of times that activation entered the body.
ObserveLoop(history, index, value, entered) ==
    LET seen == history[index + 1]
        begun == IF seen.active THEN seen
                 ELSE [active |-> TRUE, first_value |-> value, body_runs |-> 0]
    IN  [history EXCEPT ![index + 1] =
            IF entered THEN [begun EXCEPT !.body_runs = @ + 1]
            ELSE [begun EXCEPT !.active = FALSE]]

ExecLoop ==
    LET value == get_current_cell_value(memory)
    IN  /\ Dispatching("Loop")
        /\ position' = LoopTarget(CurrentNode, value)
        /\ reads' = reads + 1
        /\ loops' = ObserveLoop(loops, position, value,
                                position' = CurrentNode.next_position_as_true)
        /\ UNCHANGED <<cli_vars, function_vars, pair_vars, parser_vars, engine_vars, run_state, result,
                   input_value>>

\* The budget failure discarding what the display was handed.
BudgetExhaustedDroppingOutput ==
    /\ run_state = "running"
    /\ HasNode
    /\ ~WithinBudget
    /\ run_state' = "returned"
    /\ result' = Some(Err("BudgetExhausted"))
    /\ display' = <<>>
    /\ UNCHANGED <<cli_vars, function_vars, pair_vars, parser_vars, memory, ast_program, program_counter,
                   input_calls, limit_read_instructions, reads, position, loops,
                   input_value>>

\* The ceiling reached and nothing done about it: run stays where it is.
BudgetUnenforced ==
    /\ run_state = "running"
    /\ HasNode
    /\ ~WithinBudget
    /\ UNCHANGED vars

\* The budget guard: the ceiling is reached and another instruction is due.
BudgetExhausted ==
    /\ run_state = "running"
    /\ HasNode
    /\ ~WithinBudget
    /\ run_state' = "returned"
    /\ result' = Some(Err("BudgetExhausted"))
    /\ UNCHANGED <<cli_vars, function_vars, pair_vars, parser_vars, engine_vars, reads, position, loops,
                   input_value>>

\* run returns without dispatching: `position` is past the last node (Ok), or the
\* node selects the `_` arm (UnknownASTNode).
RunReturn ==
    /\ run_state = "running"
    /\ \/ ~HasNode
       \/ HasNode /\ WithinBudget /\ Arm(CurrentNode) = "UnknownASTNode"
    /\ run_state' = "returned"
    /\ result' = IF ~HasNode THEN Some(Ok("unit"))
                 ELSE Some(Err("UnknownASTNode"))
    /\ UNCHANGED <<cli_vars, function_vars, pair_vars, parser_vars, engine_vars, reads, position, loops,
                   input_value>>

Next ==
    \/ Parse
    \/ InterpreterNew
    \/ load_ast_program
    \/ RunEmptyAST
    \/ RunStart
    \/ ExecIncrement
    \/ ExecDecrement
    \/ ExecMoveRight
    \/ ExecMoveLeft
    \/ ExecOutput
    \/ ExecInput
    \/ ExecLoopEnd
    \/ ExecLoop
    \/ BudgetExhausted
    \/ RunReturn

Spec == Init /\ [][Next]_vars

\* ======================================================= parser properties
\* The recognized characters of a text, in order.
IsInstruction(token) == token \in Instructions
Recognized(text) == SelectSeq(text, IsInstruction)

\* Occurrences of `token` among text[from..to].
Count(text, token, from, to) == Cardinality({k \in from..to : text[k] = token})

\* Bracket pairing by depth alone: the `]` matching the `[` at `open` is the
\* first one after it where the brackets from `open` on are level again.
MatchingClose(text, open) ==
    CHOOSE close \in (open + 1)..Len(text) :
        /\ text[close] = "]"
        /\ Count(text, "[", open, close) = Count(text, "]", open, close)
        /\ \A k \in open..(close - 1) :
              Count(text, "[", open, k) > Count(text, "]", open, k)

MatchingOpen(text, close) ==
    CHOOSE open \in 1..(close - 1) :
        text[open] = "[" /\ MatchingClose(text, open) = close

\* Some `]` closes more loops than the text before it opened.
HasExcessClose(text) ==
    \E k \in 1..Len(text) : Count(text, "]", 1, k) > Count(text, "[", 1, k)

\* The place of the first such `]`.
FirstExcessClose(text) ==
    CHOOSE k \in 1..Len(text) :
        /\ Count(text, "]", 1, k) > Count(text, "[", 1, k)
        /\ \A j \in 1..(k - 1) : Count(text, "]", 1, j) <= Count(text, "[", 1, j)

Balanced(text) ==
    /\ ~HasExcessClose(text)
    /\ Count(text, "[", 1, Len(text)) = Count(text, "]", 1, Len(text))

\* from_source_to_node_ast has returned and nothing has been done since.
ParserReturned == parsed # None /\ run_state = "unbuilt"
ParsedOk == ParserReturned /\ IsOk(parsed.value)
ParsedAst == parsed.value.value

IsLoopNode(node) == node.node = "Loop"
IsLoopEndNode(node) == node.node = "Command" /\ node.operation = "LoopEnd"

\* C1: when from_source_to_node_ast succeeds, the Loop node at index i jumps to
\* i + 1 when true and to the index just after its matching loop-end when
\* false, and a loop-end jumps to the index of its matching loop-start; the
\* matching is the bracket pairing of the recognized characters.
C1_JumpTargetsMatchBrackets ==
    ParsedOk =>
        LET text == Recognized(source)
            ast == ParsedAst
        IN  /\ Len(ast) = Len(text)
            /\ \A i \in 1..Len(text) :
                  /\ text[i] = "["
                       => ast[i] = Loop("LoopStart", (i - 1) + 1,
                                        (MatchingClose(text, i) - 1) + 1)
                  /\ text[i] = "]"
                       => ast[i] = Command("LoopEnd", MatchingOpen(text, i) - 1)

\* A parsed program with a loop nested in a loop or a loop right after a loop.
C1_Witness ==
    /\ ParsedOk
    /\ \E i, j \in 1..Len(ParsedAst) :
          /\ i < j
          /\ IsLoopNode(ParsedAst[i])
          /\ IsLoopNode(ParsedAst[j])
          /\ \/ ParsedAst[i].next_position_as_false = j - 1
             \/ ParsedAst[j].next_position_as_false
                    < ParsedAst[i].next_position_as_false

\* C2: a balanced source of recognized symbols only parses, and the result has
\* as many Loop nodes as loop-end nodes.
C2_BalancedSourceParses ==
    (ParserReturned /\ Recognized(source) = source /\ Balanced(source)) =>
        /\ IsOk(parsed.value)
        /\ Len(SelectSeq(ParsedAst, IsLoopNode))
               = Len(SelectSeq(ParsedAst, IsLoopEndNode))
        /\ Len(SelectSeq(ParsedAst, IsLoopNode))
               = Count(source, "[", 1, Len(source))

\* A parsed balanced source of recognized symbols holding two loops.
C2_Witness ==
    /\ ParserReturned
    /\ Recognized(source) = source
    /\ Balanced(source)
    /\ Count(source, "[", 1, Len(source)) = 2

\* C3: a source with a `]` that nothing before it opened fails with
\* MissingOpenLoop, raised on reading that `]`: no character after it is read,
\* and the result is that of the text cut off after that `]`.
C3_ExcessCloseFailsAtOnce ==
    (ParserReturned /\ HasExcessClose(source)) =>
        /\ parsed.value = Err("MissingOpenLoop")
        /\ parser.iter_chars = FirstExcessClose(source)
        /\ parsed.value
               = from_source_to_node_ast(
                     SubSeq(source, 1, FirstExcessClose(source)))

\* Such a source with an unmatched `[` after the failing `]`.
C3_Witness ==
    /\ ParserReturned
    /\ HasExcessClose(source)
    /\ \E k \in (FirstExcessClose(source) + 1)..Len(source) : source[k] = "["
    /\ Count(source, "[", 1, Len(source)) >= Count(source, "]", 1, Len(source))

\* C4: when the scan reaches the end of the source (no `]` fails it) and a `[`
\* is left unmatched, the result is MissingTerminantedLoop, an Err that carries
\* no node sequence.
C4_UnmatchedOpenFails ==
    (/\ ParserReturned
     /\ ~HasExcessClose(source)
     /\ Count(source, "[", 1, Len(source)) > Count(source, "]", 1, Len(source)))
        => parsed.value = Err("MissingTerminantedLoop")

\* A parsed source with exactly one unmatched `[` and a closed loop before it.
C4_Witness ==
    /\ ParserReturned
    /\ ~HasExcessClose(source)
    /\ Count(source, "[", 1, Len(source))
           = Count(source, "]", 1, Len(source)) + 1
    /\ Count(source, "]", 1, Len(source)) = 1

\* C5: characters outside the eight symbols yield no node and no error: the
\* result is that of the source with those characters removed, it has one
\* node per recognized character when it is Ok, and a source without a
\* recognized character parses to the empty sequence.
C5_OtherCharactersIgnored ==
    ParserReturned =>
        /\ parsed.value = from_source_to_node_ast(Recognized(source))
        /\ IsOk(parsed.value) => Len(ParsedAst) = Len(Recognized(source))
        /\ Recognized(source) = <<>> => parsed.value = Ok(<<>>)

\* A parsed source that mixes other characters with a loop.
C5_Witness ==
    /\ ParsedOk
    /\ Len(Recognized(source)) < Len(source)
    /\ \E i \in 1..Len(ParsedAst) : IsLoopNode(ParsedAst[i])

\* ================================================== interpreter properties
Cursor == memory.position
TapeLength == Len(memory.memory)
CurrentCell == memory.memory[memory.position + 1]

\* run is about to dispatch a Command node of this operation.
AboutToDispatch(operation) ==
    /\ run_state = "running"
    /\ HasNode
    /\ WithinBudget
    /\ CurrentNode.node = "Command"
    /\ CurrentNode.operation = operation

\* run is called on an interpreter without a program or with one of no nodes.
RunCalledWithoutNodes ==
    /\ run_state = "idle"
    /\ run_state' # "idle"
    /\ IF ast_program = None THEN TRUE ELSE Len(ast_program.value) = 0

\* C6: run on an interpreter with no program loaded, or with a program of zero
\* nodes, returns Err(EmptyAST) at once: it dispatches nothing and leaves the
\* tape, the display and the input untouched.
C6_EmptyASTBeforeAnyDispatch ==
    [][RunCalledWithoutNodes =>
          /\ run_state' = "returned"
          /\ result' = Some(Err("EmptyAST"))
          /\ UNCHANGED <<memory, display, input_calls, reads, program_counter>>
      ]_vars

\* run has returned EmptyAST for a loaded program of zero nodes.
C6_Witness ==
    /\ result = Some(Err("EmptyAST"))
    /\ ast_program = Some(<<>>)
    /\ Len(source) > 0

\* C7: move-left at cursor 0 and move-right at the last cell end the run with
\* OutOfRangeMemoryAccess and the tape as it was; any other move keeps the run
\* going and changes the cursor by one, the cells staying as they were.
MoveStep(operation, delta) ==
    AboutToDispatch(operation) =>
        IF Cursor + delta < 0 \/ Cursor + delta > TapeLength - 1
        THEN /\ run_state' = "returned"
             /\ result' = Some(Err("OutOfRangeMemoryAccess"))
             /\ memory' = memory
        ELSE /\ run_state' = "running"
             /\ result' = None
             /\ memory'.position = Cursor + delta
             /\ memory'.memory = memory.memory

C7_MovesAtTheEndsAreFatal ==
    [][MoveStep("MovePointerLeft", -1) /\ MoveStep("MovePointerRight", 1)]_vars

\* A move to the last of two cells succeeded and the next move right failed.
C7_Witness ==
    /\ result = Some(Err("OutOfRangeMemoryAccess"))
    /\ TapeLength = 2
    /\ Cursor = 1
    /\ program_counter = Some("MovePointerRight")

\* C8: the cursor of a built interpreter's tape is always within [0, L).
C8_CursorWithinTape ==
    memory # None => (Cursor >= 0 /\ Cursor < TapeLength)

\* The cursor has come back to cell 0 by a move left.
C8_Witness ==
    /\ memory # None
    /\ Cursor = 0
    /\ program_counter = Some("MovePointerLeft")

\* C9: an increment never wraps and a decrement never goes below 0: the cell
\* stops at 255 and at 0, no other cell and no cursor changes, and the run goes
\* on with the next instruction.
ArithmeticStep(operation, new_value) ==
    AboutToDispatch(operation) =>
        /\ memory' = [memory EXCEPT !.memory[Cursor + 1] = new_value]
        /\ run_state' = "running"
        /\ result' = None
        /\ position' = position + 1

C9_CellArithmeticSaturates ==
    [][/\ ArithmeticStep("IncrementByOneCurrentCell",
                         IF CurrentCell = U8Max THEN U8Max ELSE CurrentCell + 1)
       /\ ArithmeticStep("DecrementByOneCurrentCell",
                         IF CurrentCell = 0 THEN 0 ELSE CurrentCell - 1)
      ]_vars

\* The first instruction was an increment of a cell holding 255; the run is on.
C9_Witness ==
    /\ run_state = "running"
    /\ reads = 1
    /\ program_counter = Some("IncrementByOneCurrentCell")
    /\ CurrentCell = U8Max
    /\ position = 1

\* The loop at node `index` counts down: its body, the nodes up to the loop-end
\* that jumps back to it, holds one decrement of the cell the loop tests, no
\* other change of a cell and no loop, and brings the cursor back.
LoopEndOf(ast, index) ==
    CHOOSE end \in (index + 1)..(Len(ast) - 1) :
        /\ IsLoopEndNode(ast[end + 1])
        /\ ast[end + 1].next_position = index
OperationsIn(ast, operation, from, to) ==
    Cardinality({k \in from..to : ast[k + 1].operation = operation})
CursorOffset(ast, from, to) ==
    OperationsIn(ast, "MovePointerRight", from, to)
        - OperationsIn(ast, "MovePointerLeft", from, to)
IsCountingLoop(ast, index) ==
    /\ IsLoopNode(ast[index + 1])
    /\ LET end == LoopEndOf(ast, index)
       IN  /\ \A k \in (index + 1)..(end - 1) :
                 /\ ~IsLoopNode(ast[k + 1])
                 /\ ast[k + 1].operation
                        \notin {"IncrementByOneCurrentCell", "InputCommand",
                                "LoopStart", "LoopEnd"}
                 /\ ast[k + 1].operation = "DecrementByOneCurrentCell"
                        => CursorOffset(ast, index + 1, k) = 0
           /\ OperationsIn(ast, "DecrementByOneCurrentCell", index + 1, end - 1) = 1
           /\ CursorOffset(ast, index + 1, end - 1) = 0

\* C10: a counting loop entered with N in its cell has run its body exactly N
\* times when it exits (zero times for N = 0): a step that leaves its Loop node
\* without entering the body finds the cell at 0 and N passes through the body
\* counted, and goes to the node after its loop-end.
C10_CountingLoopRunsNTimes ==
    [][(/\ run_state = "running"
        /\ HasNode
        /\ WithinBudget
        /\ IsCountingLoop(ast_program.value, position)
        /\ position' # position + 1)
          => /\ CurrentCell = 0
             /\ position' = LoopEndOf(ast_program.value, position) + 1
             /\ run_state' = "running"
             /\ ~loops'[position + 1].active
             /\ loops'[position + 1].body_runs = loops'[position + 1].first_value
      ]_vars

\* A counting loop entered with 2 in its cell has exited.
C10_Witness ==
    /\ run_state = "returned"
    /\ result = Some(Ok("unit"))
    /\ \E index \in 0..(Len(ast_program.value) - 1) :
          /\ IsCountingLoop(ast_program.value, index)
          /\ ~loops[index + 1].active
          /\ loops[index + 1].first_value = 2
          /\ loops[index + 1].body_runs = 2

\* ------------------------------------------------------ instruction budget
NeverEnding == <<"+", "[", "]">>

\* The run of a loaded program has returned.
RunReturned == run_state = "returned" /\ ast_program # None

BudgetFailure == result = Some(Err("BudgetExhausted"))

RunStep ==
    \/ ExecIncrement
    \/ ExecDecrement
    \/ ExecMoveRight
    \/ ExecMoveLeft
    \/ ExecOutput
    \/ ExecInput
    \/ ExecLoopEnd
    \/ ExecLoop
    \/ BudgetExhausted
    \/ RunReturn

\* run is a synchronous loop: once called it keeps taking its next step, every
\* call to a collaborator returning.
SpecFair == Spec /\ WF_vars(RunStep)

\* What run may return for a program of at least one node.
RunResults ==
    {Some(Ok("unit")), Some(Err("OutOfRangeMemoryAccess")),
     Some(Err("UnknownASTNode")), Some(Err("BudgetExhausted"))}

OutputStep ==
    AboutToDispatch("OutputCommand") =>
        /\ display' = IF CurrentCell <= AsciiMax
                      THEN Append(display, ProgramValue(CurrentCell))
                      ELSE display
        /\ memory' = memory
        /\ run_state' = "running"
        /\ position' = position + 1

C13_OutputForwardsAsciiOnly == [][OutputStep]_vars

\* `.,.` run on a tape of 255s: the first output is skipped, the second one
\* forwards the value that the input stored.
C13_Witness ==
    /\ run_state = "returned"
    /\ result = Some(Ok("unit"))
    /\ Recognized(source) = <<".", ",", ".">>
    /\ display = <<ProgramValue(1)>>

\* C14: an input instruction asks the input for one value; on Ok the current
\* cell becomes that value's byte whatever it held, on Err the tape stays as it
\* was; either way the run goes on with the next instruction, the cursor and
\* the other cells untouched.
InputStep ==
    AboutToDispatch("InputCommand") =>
        /\ input_calls' = input_calls + 1
        /\ input_value' # None
        /\ IsOk(input_value'.value)
              => CurrentCell' = ProgramValueIntoU8(input_value'.value.value)
        /\ IsErr(input_value'.value) => memory' = memory
        /\ Cursor' = Cursor
        /\ \A i \in 1..TapeLength :
              i # Cursor + 1 => memory'.memory[i] = memory.memory[i]
        /\ run_state' = "running"
        /\ position' = position + 1
        /\ display' = display

C14_InputOverwritesOrSkips == [][InputStep]_vars

\* `+,` with the input answering 0: the cell, 1 or 255 before, holds 0.
C14_Witness ==
    /\ run_state = "returned"
    /\ result = Some(Ok("unit"))
    /\ Recognized(source) = <<"+", ",">>
    /\ input_calls = 1
    /\ input_value = Some(Ok(ProgramValue(0)))
    /\ CurrentCell = 0

\* -------------------------------------------------------- unknown nodes
IsPlaceholder(node) == node.node = "Command" /\ node.operation = "LoopStart"
IsNoOp(node) == node.node = "NoOp"

\* C15: a node sequence returned by a successful from_source_to_node_ast holds
\* no placeholder Command(LoopStart) and no NoOp: each node selects a known arm
\* of run, and no run fails with UnknownASTNode.
C15_UnknownASTNodeUnreachable ==
    /\ ParsedOk =>
          \A i \in 1..Len(ParsedAst) :
              /\ ~IsPlaceholder(ParsedAst[i])
              /\ ~IsNoOp(ParsedAst[i])
              /\ Arm(ParsedAst[i]) # "UnknownASTNode"
    /\ result # Some(Err("UnknownASTNode"))

\* A program with a loop has run through its Loop node to the end.
C15_Witness ==
    /\ run_state = "returned"
    /\ result = Some(Ok("unit"))
    /\ \E i \in 1..Len(ast_program.value) :
          /\ IsLoopNode(ast_program.value[i])
          /\ loops[i].body_runs > 0

\* ------------------------------------------------------------- returns
\* run returns on this step, having been called on a program with nodes.
RunReturns == run_state = "running" /\ run_state' = "returned"

\* A program without loops: Command nodes only, none of them a loop-end.
StraightLine(ast) ==
    \A i \in 1..Len(ast) : ast[i].node = "Command" /\ ast[i].operation # "LoopEnd"

\* C16: run returns Ok(()) exactly when `position` has walked past the last
\* node, no fatal error having returned before; a straight-line program of
\* n nodes, n within the budget and no move out of range, returns Ok(()) and
\* has dispatched exactly n instructions by then.
ReturnStep ==
    RunReturns =>
        /\ result' = Some(Ok("unit")) <=> position >= Len(ast_program.value)
        /\ result' = Some(Ok("unit")) => result = None
        /\ (/\ StraightLine(ast_program.value)
            /\ Len(ast_program.value) <= limit_read_instructions
            /\ result' # Some(Err("OutOfRangeMemoryAccess")))
              => /\ result' = Some(Ok("unit"))
                 /\ reads' = Len(ast_program.value)

C16_OkWhenPastTheLastNode == [][ReturnStep]_vars

\* A straight-line program of three nodes or more has returned Ok(()).
C16_Witness ==
    /\ run_state = "returned"
    /\ result = Some(Ok("unit"))
    /\ StraightLine(ast_program.value)
    /\ Len(ast_program.value) >= 3
    /\ reads = Len(ast_program.value)

\* The instruction at `position` is about to fail the run.
MoveOutOfRange ==
    \/ AboutToDispatch("MovePointerLeft") /\ Cursor = 0
    \/ AboutToDispatch("MovePointerRight") /\ Cursor = TapeLength - 1
BudgetSpent == run_state = "running" /\ HasNode /\ ~WithinBudget
UnknownNode ==
    /\ run_state = "running"
    /\ HasNode
    /\ WithinBudget
    /\ Arm(CurrentNode) = "UnknownASTNode"
FatalErrors ==
    {Some(Err("OutOfRangeMemoryAccess")), Some(Err("BudgetExhausted")),
     Some(Err("UnknownASTNode"))}

\* C17: a fatal execution error ends the run at the failing instruction: the
\* step on which it is due returns the error, with no exchange with the display
\* or the input on it and what the display was handed kept; and once run has
\* returned, nothing is dispatched and no exchange happens.
FatalStep ==
    /\ (MoveOutOfRange \/ BudgetSpent \/ UnknownNode)
          => /\ run_state' = "returned"
             /\ result' \in FatalErrors
    /\ (RunReturns /\ result' \in FatalErrors)
          => /\ MoveOutOfRange \/ BudgetSpent \/ UnknownNode
             /\ display' = display
             /\ input_calls' = input_calls
    /\ run_state = "returned"
          => UNCHANGED <<reads, position, display, input_calls, memory, result,
                         run_state>>

C17_FatalErrorStopsTheRun == [][FatalStep]_vars

\* `.<.` fails on its move: the first output stays, the second never happens.
C17_Witness ==
    /\ run_state = "returned"
    /\ result = Some(Err("OutOfRangeMemoryAccess"))
    /\ Recognized(source) = <<".", "<", ".">>
    /\ display = <<ProgramValue(0)>>
    /\ reads = 2

\* C18: an exchange with a collaborator happens on the step that executes an
\* input or output instruction and on no other, one exchange per instruction:
\* an output on a 7-bit cell appends its one value to what the display was
\* handed, an output on a cell above 127 hands it nothing, an input is one
\* get_input call, and every other step leaves both as they were.
ExchangeStep ==
    /\ IF AboutToDispatch("OutputCommand") /\ CurrentCell <= AsciiMax
       THEN display' = Append(display, ProgramValue(CurrentCell))
       ELSE display' = display
    /\ IF AboutToDispatch("InputCommand")
       THEN input_calls' = input_calls + 1
       ELSE input_calls' = input_calls

C18_OneExchangePerInstruction == [][ExchangeStep]_vars

\* `,.,` with the input answering 1: two requests around one output.
C18_Witness ==
    /\ run_state = "returned"
    /\ result = Some(Ok("unit"))
    /\ Recognized(source) = <<",", ".", ",">>
    /\ input_calls = 2
    /\ display = <<ProgramValue(1)>>

\* =========================================== interpreters sharing a program
\* Interpreter.ast_program is a shared borrow (&'a Vec<BrainfuckNodeAST>):
\* several interpreters may hold the same node sequence, each one owning its
\* tape, its display and its input.
Engines == 1..2

SharedSources == UNION {[1..n -> Instructions] : n \in 0..MaxSharedLen}

\* The node sequences from_source_to_node_ast returns for those sources.
SharedPrograms ==
    {from_source_to_node_ast(text).value :
        text \in {t \in SharedSources : IsOk(from_source_to_node_ast(t))}}

\* An input that answers every get_input call alike, as the test doubles of
\* interpreter.rs do.
EngineAnswers ==
    {Ok(ProgramValue(1)), Ok(ProgramValue(AsciiMax)), Err("Unknown")}

\* Interpreter::new followed by load_ast_program; `tape0` remembers the tape
\* the interpreter was built with.
NewEngine(tape, answer, limit) ==
    [memory |-> tape, program_counter |-> None, display |-> <<>>,
     input |-> answer, input_calls |-> 0, limit_read_instructions |-> limit,
     position |-> 0, reads |-> 0, run_state |-> "idle", result |-> None,
     tape0 |-> tape]

\* The head of run that also resets the tape to zeroed cells and cell 0.
StartedOnClearedTape(engine, ast) ==
    IF IsEmptyAST(Some(ast))
    THEN [engine EXCEPT !.run_state = "returned",
                        !.result = Some(Err("EmptyAST"))]
    ELSE [engine EXCEPT !.run_state = "running", !.position = 0, !.reads = 0,
                        !.memory = BrainfuckMemoryNew(Len(engine.memory.memory))]

\* The head of run: the empty check, then `let mut position = 0`.
Started(engine, ast) ==
    IF IsEmptyAST(Some(ast))
    THEN [engine EXCEPT !.run_state = "returned",
                        !.result = Some(Err("EmptyAST"))]
    ELSE [engine EXCEPT !.run_state = "running", !.position = 0, !.reads = 0]

\* One turn of run's loop for one interpreter, or its return; `clock` is the
\* count the budget guard compares with the ceiling.
Turn(engine, ast, clock) ==
    IF engine.position >= Len(ast)
    THEN [engine EXCEPT !.run_state = "returned", !.result = Some(Ok("unit"))]
    ELSE IF clock >= engine.limit_read_instructions
    THEN [engine EXCEPT !.run_state = "returned",
                        !.result = Some(Err("BudgetExhausted"))]
    ELSE
    LET node == ast[engine.position + 1]
        arm == Arm(node)
        value == get_current_cell_value(engine.memory)
        counted == [engine EXCEPT !.reads = @ + 1]
        moved(delta) ==
            LET result_move == move_pointer_position(engine.memory, delta)
                at_next == [counted EXCEPT !.position = node.next_position,
                                           !.memory = result_move.tape]
            IN  IF MoveIsFatal(result_move.result)
                THEN [at_next EXCEPT
                        !.run_state = "returned",
                        !.result = Some(Err("OutOfRangeMemoryAccess"))]
                ELSE [at_next EXCEPT !.program_counter = Some(arm)]
    IN  CASE arm = "IncrementByOneCurrentCell" ->
               [counted EXCEPT
                  !.position = node.next_position,
                  !.memory = update_memory_cell_value(@, CheckedAdd(value)).tape,
                  !.program_counter = Some(arm)]
          [] arm = "DecrementByOneCurrentCell" ->
               [counted EXCEPT
                  !.position = node.next_position,
                  !.memory = update_memory_cell_value(@, CheckedSub(value)).tape,
                  !.program_counter = Some(arm)]
          [] arm = "MovePointerRight" -> moved(1)
          [] arm = "MovePointerLeft" -> moved(-1)
          [] arm = "OutputCommand" ->
               [counted EXCEPT
                  !.position = node.next_position,
                  !.display = IF AsciiCharFromU8(value) # None
                              THEN Append(@, ProgramValue(
                                                 AsciiCharFromU8(value).value))
                              ELSE @,
                  !.program_counter = Some(arm)]
          [] arm = "InputCommand" ->
               [counted EXCEPT
                  !.position = node.next_position,
                  !.input_calls = @ + 1,
                  !.memory = InputStored(@, engine.input)]
          [] arm = "LoopEnd" -> [counted EXCEPT !.position = node.next_position]
          [] arm = "Loop" -> [counted EXCEPT !.position = LoopTarget(node, value)]
          [] OTHER -> [engine EXCEPT !.run_state = "returned",
                                     !.result = Some(Err("UnknownASTNode"))]

\* A wall clock: the instructions all the interpreters have dispatched.
EngineWallClock(i) == engines[1].reads + engines[2].reads

\* The budget guard counts the interpreter's own dispatched instructions.
EngineClock(i) == engines[i].reads

\* The variables of the single interpreter, which stay as they begin here.
solo_vars == <<parser_vars, engine_vars, run_vars>>

\* One parsed program, and two interpreters built on it with the same ceiling,
\* each with a tape and an input of its own.
InitTwo ==
    /\ source = <<>>
    /\ parser = ParserStart
    /\ parsed = None
    /\ memory = None
    /\ ast_program = None
    /\ program_counter = None
    /\ display = <<>>
    /\ input_calls = 0
    /\ input_value = None
    /\ limit_read_instructions = 0
    /\ reads = 0
    /\ position = 0
    /\ run_state = "unbuilt"
    /\ result = None
    /\ loops = <<>>
    /\ matches = "run"
    /\ source_code = None
    /\ exit = None
    /\ subject = None
    /\ outcome = None
    /\ shared_ast \in SharedPrograms
    /\ \E limit \in Limits :
          engines \in [Engines -> {NewEngine(tape, answer, limit) :
                                      tape \in Tapes(MaxTape),
                                      answer \in EngineAnswers}]

\* run is called on interpreter i.
EngineStart(i) ==
    /\ engines[i].run_state = "idle"
    /\ engines' = [engines EXCEPT ![i] = Started(@, shared_ast)]
    /\ UNCHANGED <<shared_ast, solo_vars, cli_vars, function_vars>>

\* The turn of interpreter i also moving the place the others are at, as if
\* the place in the program were kept with the node sequence.
EngineStepSharedPosition(i) ==
    /\ engines[i].run_state = "running"
    /\ LET stepped == Turn(engines[i], shared_ast, EngineClock(i))
       IN  engines' = [j \in Engines |->
                          IF j = i THEN stepped
                          ELSE [engines[j] EXCEPT !.position = stepped.position]]
    /\ UNCHANGED <<shared_ast, solo_vars, cli_vars, function_vars>>

\* Interpreter i takes one turn of its loop; the others stay as they are.
EngineStep(i) ==
    /\ engines[i].run_state = "running"
    /\ engines' = [engines EXCEPT ![i] = Turn(@, shared_ast, EngineClock(i))]
    /\ UNCHANGED <<shared_ast, solo_vars, cli_vars, function_vars>>

NextTwo ==
    \/ \E i \in Engines : EngineStart(i)
    \/ \E i \in Engines : EngineStep(i)

SpecTwo == InitTwo /\ [][NextTwo]_vars

\* run carried through alone from where the interpreter is.
RECURSIVE RunAlone(_, _)
RunAlone(engine, ast) ==
    IF engine.run_state = "returned" THEN engine
    ELSE RunAlone(Turn(engine, ast, engine.reads), ast)

\* The interpreter as it was built, and what a run leaves to be seen.
AsBuilt(engine) ==
    NewEngine(engine.tape0, engine.input, engine.limit_read_instructions)
Outcome(engine) ==
    [result |-> engine.result, display |-> engine.display,
     memory |-> engine.memory, reads |-> engine.reads]
SameSetup(a, b) ==
    /\ a.tape0 = b.tape0
    /\ a.limit_read_instructions = b.limit_read_instructions
    /\ a.input = b.input
BothReturned ==
    engines # <<>> /\ \A i \in Engines : engines[i].run_state = "returned"

SharedStep ==
    /\ shared_ast' = shared_ast
    /\ \A i \in Engines :
          engines'[i].run_state = "returned"
              => Outcome(engines'[i])
                     = Outcome(RunAlone(Started(AsBuilt(engines'[i]), shared_ast'),
                                        shared_ast'))

C20_SharedProgramRunsAlike == [][SharedStep]_vars

\* Two interpreters set up differently ran a program with a loop to different
\* ends, one of them stopped by the budget.
C20_Witness ==
    /\ BothReturned
    /\ \E i \in 1..Len(shared_ast) : IsLoopNode(shared_ast[i])
    /\ engines[1].tape0 # engines[2].tape0
    /\ engines[1].result = Some(Err("BudgetExhausted"))
    /\ engines[2].result = Some(Ok("unit"))
    /\ engines[2].reads > 0

\* ================================== functions applied to given arguments
\* A worked example of the parser, and the programs of k increments and an
\* output; the tape and the ceiling are the defaults of the `run` command.
LoopExample == <<"+", "+", "[", "+", ">", "]", "+", "+">>
Increments(k) == [i \in 1..(k + 1) |-> IF i <= k THEN "+" ELSE "."]
IncrementPrograms == {Increments(k) : k \in 0..MaxIncrements}

ParserSubjects ==
    {[function |-> "from_source_to_node_ast", source |-> LoopExample]}
RunSubjects ==
    {[function |-> "run", source |-> text, memory_size |-> DefaultMemorySize,
      limit |-> DefaultReads] : text \in IncrementPrograms \cup {LoopExample}}

\* from_source_to_node_ast applied to the subject's source.
CallParser ==
    /\ subject.function = "from_source_to_node_ast"
    /\ outcome = None
    /\ outcome' = Some(from_source_to_node_ast(subject.source))
    /\ UNCHANGED <<subject, cli_vars, pair_vars, solo_vars>>

\* What main does with a source once read: parse, build the interpreter on a
\* fresh tape, load the program and run; the input is never asked here.
RunFresh(text, memory_size, limit) ==
    LET ast == from_source_to_node_ast(text).value
        engine == NewEngine(BrainfuckMemoryNew(memory_size), Err("Unknown"), limit)
    IN  RunAlone(Started(engine, ast), ast)

CallRun ==
    /\ subject.function = "run"
    /\ outcome = None
    /\ outcome' = Some(RunFresh(subject.source, subject.memory_size,
                                subject.limit))
    /\ UNCHANGED <<subject, cli_vars, pair_vars, solo_vars>>

\* One function and its argument, and no call made yet.
InitFunctions ==
    /\ source = <<>>
    /\ parser = ParserStart
    /\ parsed = None
    /\ memory = None
    /\ ast_program = None
    /\ program_counter = None
    /\ display = <<>>
    /\ input_calls = 0
    /\ input_value = None
    /\ limit_read_instructions = 0
    /\ reads = 0
    /\ position = 0
    /\ run_state = "unbuilt"
    /\ result = None
    /\ loops = <<>>
    /\ shared_ast = <<>>
    /\ engines = <<>>
    /\ matches = "run"
    /\ source_code = None
    /\ exit = None
    /\ outcome = None
    /\ \/ subject \in ParserSubjects
       \/ subject \in RunSubjects

NextFunctions ==
    \/ CallParser
    \/ CallRun

SpecFunctions == InitFunctions /\ [][NextFunctions]_vars

Called(function) ==
    subject # None /\ subject.function = function /\ outcome # None

\* C21: `++[+>]++` parses to Command(increment, 1), Command(increment, 2),
\* Loop(start, true = 3, false = 6), Command(increment, 4),
\* Command(move-right, 5), Command(loop-end, 2), Command(increment, 7),
\* Command(increment, 8), and to nothing else.
C21_LoopExampleParses ==
    (Called("from_source_to_node_ast") /\ subject.source = LoopExample)
        => outcome.value =
              Ok(<<Command("IncrementByOneCurrentCell", 1),
                   Command("IncrementByOneCurrentCell", 2),
                   [node |-> "Loop", operation |-> "LoopStart",
                    next_position_as_true |-> 3,
                    next_position_as_false |-> 6],
                   Command("IncrementByOneCurrentCell", 4),
                   Command("MovePointerRight", 5),
                   Command("LoopEnd", 2),
                   Command("IncrementByOneCurrentCell", 7),
                   Command("IncrementByOneCurrentCell", 8)>>)

\* The parser has returned eight nodes for the example.
C21_Witness ==
    /\ Called("from_source_to_node_ast")
    /\ subject.source = LoopExample
    /\ IsOk(outcome.value)
    /\ Len(outcome.value.value) = 8

\* C22: k increments and one output, 0 <= k <= 127, run on a fresh tape:
\* run returns Ok(()), the display is handed one value, the character of code
\* k, the current cell holds k and the cursor is at 0.
C22_IncrementsThenOutput ==
    (/\ Called("run")
     /\ subject.source \in IncrementPrograms
     /\ Len(subject.source) - 1 <= AsciiMax)
        => LET k == Len(subject.source) - 1
               engine == outcome.value
           IN  /\ engine.result = Some(Ok("unit"))
               /\ engine.display = <<ProgramValue(k)>>
               /\ get_current_cell_value(engine.memory) = k
               /\ get_position(engine.memory) = 0
               /\ engine.reads = k + 1

\* 65 increments and an output: the display got 'A'.
C22_Witness ==
    /\ Called("run")
    /\ subject.source = Increments(65)
    /\ outcome.value.result = Some(Ok("unit"))
    /\ outcome.value.display = <<ProgramValue(65)>>

\* ================================================== the commands of main
\* The texts a file may hold, and the ways reading it may fail.
FileSources == UNION {[1..n -> Alphabet] : n \in 0..MaxFileLen}
FileErrors ==
    {"FileNotFound", "FilePathMalformed", "IsADirectory", "NotEnoughPermission",
     "UnexpectedError"}

\* `lint` or `run` on a file not read yet.
InitCommand ==
    /\ source \in FileSources
    /\ parser = ParserStart
    /\ parsed = None
    /\ memory = None
    /\ ast_program = None
    /\ program_counter = None
    /\ display = <<>>
    /\ input_calls = 0
    /\ input_value = None
    /\ limit_read_instructions = 0
    /\ reads = 0
    /\ position = 0
    /\ run_state = "unbuilt"
    /\ result = None
    /\ loops = <<>>
    /\ shared_ast = <<>>
    /\ engines = <<>>
    /\ matches \in {"lint", "run"}
    /\ source_code = None
    /\ exit = None
    /\ subject = None
    /\ outcome = None

\* read_source_code_file(path).map_err(|error| panic!(..)).unwrap()
read_source_code_file ==
    /\ source_code = None
    /\ exit = None
    /\ \/ /\ source_code' = Some(Ok(source))
          /\ UNCHANGED exit
       \/ /\ \E error \in FileErrors : source_code' = Some(Err(error))
          /\ exit' = Some("failure")
    /\ UNCHANGED <<matches, function_vars, pair_vars, solo_vars>>

\* from_source_to_node_ast(..).map_err(|error| panic!(..)): the parser's Err.
ParsePanics ==
    /\ exit = None
    /\ parsed # None
    /\ IsErr(parsed.value)
    /\ exit' = Some("failure")
    /\ UNCHANGED <<matches, source_code, function_vars, pair_vars, solo_vars>>

\* The success line printed whatever the parser returned.
LintReportsUnchecked ==
    /\ matches = "lint"
    /\ exit = None
    /\ parsed # None
    /\ exit' = Some("success")
    /\ UNCHANGED <<matches, source_code, function_vars, pair_vars, solo_vars>>

\* lint: println!("All good!") after the parser's Ok.
LintReports ==
    /\ matches = "lint"
    /\ exit = None
    /\ parsed # None
    /\ IsOk(parsed.value)
    /\ exit' = Some("success")
    /\ UNCHANGED <<matches, source_code, function_vars, pair_vars, solo_vars>>

\* run: interpreter.run().map_err(|error| panic!(..)).unwrap(), then the
\* closing lines.
RunReports ==
    /\ matches = "run"
    /\ exit = None
    /\ run_state = "returned"
    /\ exit' = IF IsOk(result.value) THEN Some("success") ELSE Some("failure")
    /\ UNCHANGED <<matches, source_code, function_vars, pair_vars, solo_vars>>

NextCommand ==
    \/ read_source_code_file
    \/ ParsePanics
    \/ LintReports
    \/ RunReports
    \/ Next

SpecCommand == InitCommand /\ [][NextCommand]_vars

SourceAcquired == source_code = Some(Ok(source))
NothingExecuted ==
    /\ run_state = "unbuilt"
    /\ memory = None
    /\ reads = 0
    /\ display = <<>>
    /\ input_calls = 0

\* C23: the interpreter is built and run only by `run`, and only once the
\* source was read and parsed with success; an error in reading or in parsing
\* ends the command as a failure with nothing executed and nothing handed to
\* the display; `lint` executes nothing and ends as a success exactly when
\* the parser returned Ok.
C23_PipelineIsOrdered ==
    /\ ~NothingExecuted
          => /\ matches = "run"
             /\ SourceAcquired
             /\ parsed # None /\ IsOk(parsed.value)
    /\ parsed # None => SourceAcquired
    /\ ((source_code # None /\ IsErr(source_code.value))
           \/ (parsed # None /\ IsErr(parsed.value)))
          => /\ NothingExecuted
             /\ exit \in {None, Some("failure")}
    /\ (source_code # None /\ IsErr(source_code.value))
          => parsed = None /\ exit = Some("failure")
    /\ matches = "lint"
          => /\ NothingExecuted
             /\ exit = Some("success") => parsed # None /\ IsOk(parsed.value)
             /\ exit = Some("failure")
                   => \/ IsErr(source_code.value)
                      \/ parsed # None /\ IsErr(parsed.value)

\* `run` on a source with a `]` too many has failed with nothing executed.
C23_Witness ==
    /\ matches = "run"
    /\ parsed = Some(Err("MissingOpenLoop"))
    /\ exit = Some("failure")
    /\ NothingExecuted


\* ====================================================== argument parsers
\* str::parse for an unsigned integer type, on a text given as its characters.
\* The number read so far is kept as its decimal digits without leading
\* zeros, so that values beyond the type's maximum can be told apart.
Digits == <<"0", "1", "2", "3", "4", "5", "6", "7", "8", "9">>
IsDigit(c) == \E d \in 1..10 : Digits[d] = c
to_digit(c) == (CHOOSE d \in 1..10 : Digits[d] = c) - 1

\* usize::MAX on a 64-bit target, 18446744073709551615, and u8::MAX.
UsizeMax == <<1, 8, 4, 4, 6, 7, 4, 4, 0, 7, 3, 7, 0, 9, 5, 5, 1, 6, 1, 5>>
U8MaxDigits == <<2, 5, 5>>

RECURSIVE Exceeds(_, _)
Exceeds(a, b) ==
    IF a = <<>> THEN FALSE
    ELSE IF Head(a) # Head(b) THEN Head(a) > Head(b)
    ELSE Exceeds(Tail(a), Tail(b))

\* checked_mul(10) and checked_add(digit) fail exactly when the new number
\* is above the type's maximum.
Overflows(number, max) ==
    \/ Len(number) > Len(max)
    \/ Len(number) = Len(max) /\ Exceeds(number, max)

PushDigit(number, digit) ==
    IF number = <<>> /\ digit = 0 THEN <<>> ELSE Append(number, digit)

RECURSIVE ParseDigits(_, _, _)
ParseDigits(text, number, max) ==
    IF text = <<>> THEN Ok(number)
    ELSE IF ~IsDigit(Head(text)) THEN Err("InvalidDigit")
    ELSE LET next == PushDigit(number, to_digit(Head(text)))
         IN  IF Overflows(next, max) THEN Err("PosOverflow")
             ELSE ParseDigits(Tail(text), next, max)

parse_unsigned(text, max) ==
    IF text = <<>> THEN Err("Empty")
    ELSE IF text = <<"+">> \/ text = <<"-">> THEN Err("InvalidDigit")
    ELSE IF Head(text) = "+" THEN ParseDigits(Tail(text), <<>>, max)
    ELSE ParseDigits(text, <<>>, max)

\* ParseIntError's to_string().
IntErrorText(kind) ==
    CASE kind = "Empty" -> "cannot parse integer from empty string"
      [] kind = "InvalidDigit" -> "invalid digit found in string"
      [] kind = "PosOverflow" -> "number too large to fit in target type"

\* The value of a number of at most nine digits.
RECURSIVE ToNumber(_)
ToNumber(number) ==
    IF number = <<>> THEN 0
    ELSE ToNumber(SubSeq(number, 1, Len(number) - 1)) * 10 + number[Len(number)]

\* value > n, for n of at most nine digits.
GreaterThan(number, n) == Len(number) > 9 \/ ToNumber(number) > n

\* The `< 1` arm left out.
memory_size_parser_accepting_zero(memory_size) ==
    LET value == parse_unsigned(memory_size, UsizeMax)
    IN  IF IsErr(value) THEN Err(IntErrorText(value.error))
        ELSE IF GreaterThan(value.value, MemorySizeCap)
        THEN Err("Maximum value accepted is 30_000")
        ELSE Ok(ToNumber(value.value))

memory_size_parser(memory_size) ==
    LET value == parse_unsigned(memory_size, UsizeMax)
    IN  IF IsErr(value) THEN Err(IntErrorText(value.error))
        ELSE IF GreaterThan(value.value, MemorySizeCap)
        THEN Err("Maximum value accepted is 30_000")
        ELSE IF ToNumber(value.value) < MinMemorySize
        THEN Err("Minimum value accepted is 1")
        ELSE Ok(ToNumber(value.value))

\* The cap of the memory size used for the limit of reads.
limit_read_instructions_parser_capped_as_memory(limit) ==
    LET value == parse_unsigned(limit, UsizeMax)
    IN  IF IsErr(value) THEN Err(IntErrorText(value.error))
        ELSE IF GreaterThan(value.value, MemorySizeCap)
        THEN Err("Maximum value accepted is 100_000")
        ELSE IF ToNumber(value.value) < MinReads
        THEN Err("Minimum value accepted is 1")
        ELSE Ok(ToNumber(value.value))

limit_read_instructions_parser(limit) ==
    LET value == parse_unsigned(limit, UsizeMax)
    IN  IF IsErr(value) THEN Err(IntErrorText(value.error))
        ELSE IF GreaterThan(value.value, ReadsCap)
        THEN Err("Maximum value accepted is 100_000")
        ELSE IF ToNumber(value.value) < MinReads
        THEN Err("Minimum value accepted is 1")
        ELSE Ok(ToNumber(value.value))

\* The texts handed to the parsers: every decimal numeral up to a bound, and
\* texts that are signed, padded, empty, not numerals, or at the edge of usize.
RECURSIVE DecimalDigits(_)
DecimalDigits(n) ==
    IF n < 10 THEN <<n>> ELSE Append(DecimalDigits(n \div 10), n % 10)
Text(digits) == [i \in 1..Len(digits) |-> Digits[digits[i] + 1]]
ToDecimal(n) == Text(DecimalDigits(n))
BeyondUsize == <<1, 8, 4, 4, 6, 7, 4, 4, 0, 7, 3, 7, 0, 9, 5, 5, 1, 6, 1, 6>>
OddArguments ==
    {<<>>, <<"+">>, <<"-">>, <<"-", "1">>, <<"+", "5">>, <<"+", "0">>, <<"a">>,
     <<"0", "0", "7">>, <<"1", "x">>, <<"1", "0", "0", "0", "0", "0", "0", "0", "0", "0">>,
     Text(UsizeMax), Text(BeyondUsize), Text(UsizeMax \o <<0>>)}
MemorySizeArguments == {ToDecimal(n) : n \in 0..MaxMemoryArgument} \cup OddArguments
LimitArguments == {ToDecimal(n) : n \in 0..MaxLimitArgument} \cup OddArguments

call_memory_size_parser ==
    /\ subject.function = "memory_size_parser"
    /\ outcome = None
    /\ outcome' = Some(memory_size_parser(subject.memory_size))
    /\ UNCHANGED <<subject, cli_vars, pair_vars, solo_vars>>

call_limit_read_instructions_parser ==
    /\ subject.function = "limit_read_instructions_parser"
    /\ outcome = None
    /\ outcome' = Some(limit_read_instructions_parser(subject.limit_read_instructions))
    /\ UNCHANGED <<subject, cli_vars, pair_vars, solo_vars>>

InitArguments ==
    /\ source = <<>>
    /\ parser = ParserStart
    /\ parsed = None
    /\ memory = None
    /\ ast_program = None
    /\ program_counter = None
    /\ display = <<>>
    /\ input_calls = 0
    /\ input_value = None
    /\ limit_read_instructions = 0
    /\ reads = 0
    /\ position = 0
    /\ run_state = "unbuilt"
    /\ result = None
    /\ loops = <<>>
    /\ shared_ast = <<>>
    /\ engines = <<>>
    /\ matches = "run"
    /\ source_code = None
    /\ exit = None
    /\ outcome = None
    /\ \/ \E text \in MemorySizeArguments :
             subject = [function |-> "memory_size_parser", memory_size |-> text]
       \/ \E text \in LimitArguments :
             subject = [function |-> "limit_read_instructions_parser",
                        limit_read_instructions |-> text]

NextArguments ==
    \/ call_memory_size_parser
    \/ call_limit_read_instructions_parser

SpecArguments == InitArguments /\ [][NextArguments]_vars

\* What a text says, read as a decimal numeral with an optional `+`.
Unsigned(text) == IF text # <<>> /\ Head(text) = "+" THEN Tail(text) ELSE text
IsNumeral(text) ==
    /\ Unsigned(text) # <<>>
    /\ \A i \in 1..Len(Unsigned(text)) : IsDigit(Unsigned(text)[i])
RECURSIVE Significant(_)
Significant(text) ==
    IF text = <<>> THEN <<>>
    ELSE IF Head(text) = "0" THEN Significant(Tail(text))
    ELSE [i \in 1..Len(text) |-> to_digit(text[i])]
Numeral(text) == Significant(Unsigned(text))
IsZero(text) == IsNumeral(text) /\ Numeral(text) = <<>>
IsAbove(text, n) == IsNumeral(text) /\ GreaterThan(Numeral(text), n)
IsWithin(text, low, high) ==
    /\ IsNumeral(text)
    /\ ~GreaterThan(Numeral(text), high)
    /\ ToNumber(Numeral(text)) >= low
FitsUsize(text) == ~Overflows(Numeral(text), UsizeMax)

\* C24 as stated: memory_size_parser accepts exactly the integers 1..=30000
\* and returns them, rejects 0 with the minimum message, and rejects every
\* value above 30000 with the maximum message.
C24_AnyValueAboveGetsTheMaximumMessage ==
    Called("memory_size_parser") =>
        LET text == subject.memory_size
            answer == outcome.value
        IN  /\ IsOk(answer) <=> IsWithin(text, 1, 30000)
            /\ IsOk(answer) => answer.value = ToNumber(Numeral(text))
            /\ IsZero(text) => answer = Err("Minimum value accepted is 1")
            /\ IsAbove(text, 30000) => answer = Err("Maximum value accepted is 30_000")

\* C24: memory_size_parser accepts exactly the integers 1..=30000 and returns
\* them, so no run starts with a tape of length 0 or above 30000; it rejects 0
\* with the minimum message, a value above 30000 that fits usize with the
\* maximum message, and a value beyond usize with the integer parser's
\* overflow message.
C24_MemorySizeWithinRange ==
    Called("memory_size_parser") =>
        LET text == subject.memory_size
            answer == outcome.value
        IN  /\ IsOk(answer) <=> IsWithin(text, 1, 30000)
            /\ IsOk(answer) =>
                  /\ answer.value = ToNumber(Numeral(text))
                  /\ answer.value \in 1..30000
            /\ IsZero(text) => answer = Err("Minimum value accepted is 1")
            /\ IsAbove(text, 30000) /\ FitsUsize(text)
                  => answer = Err("Maximum value accepted is 30_000")
            /\ IsAbove(text, 30000) /\ ~FitsUsize(text)
                  => answer = Err("number too large to fit in target type")

\* 2^64 as the memory size has been rejected as too large for the type.
C24_Witness ==
    /\ Called("memory_size_parser")
    /\ subject.memory_size = Text(BeyondUsize)
    /\ outcome = Some(Err("number too large to fit in target type"))

\* C25 as stated: limit_read_instructions_parser accepts exactly the integers
\* 1..=100000 and returns them, rejects 0 with the minimum message, and
\* rejects every value above 100000 with the maximum message.
C25_AnyLimitAboveGetsTheMaximumMessage ==
    Called("limit_read_instructions_parser") =>
        LET text == subject.limit_read_instructions
            answer == outcome.value
        IN  /\ IsOk(answer) <=> IsWithin(text, 1, 100000)
            /\ IsOk(answer) => answer.value = ToNumber(Numeral(text))
            /\ IsZero(text) => answer = Err("Minimum value accepted is 1")
            /\ IsAbove(text, 100000) => answer = Err("Maximum value accepted is 100_000")

\* C25: limit_read_instructions_parser accepts exactly the integers 1..=100000
\* and returns them, so the budget of a run is always in 1..=100000; it rejects
\* 0 with the minimum message, a value above 100000 that fits usize with the
\* maximum message, and a value beyond usize with the integer parser's
\* overflow message.
C25_LimitWithinRange ==
    Called("limit_read_instructions_parser") =>
        LET text == subject.limit_read_instructions
            answer == outcome.value
        IN  /\ IsOk(answer) <=> IsWithin(text, 1, 100000)
            /\ IsOk(answer) =>
                  /\ answer.value = ToNumber(Numeral(text))
                  /\ answer.value \in 1..100000
            /\ IsZero(text) => answer = Err("Minimum value accepted is 1")
            /\ IsAbove(text, 100000) /\ FitsUsize(text)
                  => answer = Err("Maximum value accepted is 100_000")
            /\ IsAbove(text, 100000) /\ ~FitsUsize(text)
                  => answer = Err("number too large to fit in target type")

\* A limit of ten times usize::MAX has been rejected as too large for the type.
C25_Witness ==
    /\ Called("limit_read_instructions_parser")
    /\ subject.limit_read_instructions = Text(UsizeMax \o <<0>>)
    /\ outcome = Some(Err("number too large to fit in target type"))


\* ============================================================ io.rs values
\* The characters a prompt's answer is made of, with their code points; the
\* last one is outside ASCII.
TextChars == {"0", "1", "2", "5", "6", "7", "8", "A", "B", "+", "-", "Ñ"}
CodePoint(c) ==
    CASE IsDigit(c) -> 48 + to_digit(c)
      [] c = "A" -> 65
      [] c = "B" -> 66
      [] c = "+" -> 43
      [] c = "-" -> 45
      [] c = "Ñ" -> 209
Texts == UNION {[1..n -> TextChars] : n \in 0..MaxTextLen}

\* str::is_ascii
is_ascii(value) == \A i \in 1..Len(value) : CodePoint(value[i]) <= AsciiMax

\* impl TryFrom<&str> for ProgramValue
try_from(value) ==
    LET value_parsed == parse_unsigned(value, U8MaxDigits)
    IN  IF IsOk(value_parsed)
        THEN LET ascii_char == AsciiCharFromU8(ToNumber(value_parsed.value))
             IN  IF ascii_char = None THEN Err("NotValidNumericRangeValue")
                 ELSE Ok(ProgramValue(ascii_char.value))
        ELSE IF value_parsed.error = "PosOverflow"
        THEN Err("NotValidNumericRangeValue")
        ELSE IF value_parsed.error = "InvalidDigit"
        THEN IF is_ascii(value)
             THEN Ok(ProgramValue(CodePoint(value[1])))
             ELSE Err("NotValidAsciiCharacter")
        ELSE Err("UnknownError")

call_try_from ==
    /\ subject.function = "try_from"
    /\ outcome = None
    /\ outcome' = Some(try_from(subject.value))
    /\ UNCHANGED <<subject, cli_vars, pair_vars, solo_vars>>

\* An output instruction on a cell holding `byte`, then an input instruction
\* whose collaborator hands back what the display received.
OutputOf(byte) ==
    LET ast == from_source_to_node_ast(<<".">>).value
        engine == NewEngine([memory |-> <<byte>>, position |-> 0], Err("Unknown"),
                            DefaultReads)
    IN  RunAlone(Started(engine, ast), ast)
InputOf(value) ==
    LET ast == from_source_to_node_ast(<<",">>).value
        engine == NewEngine([memory |-> <<U8Max>>, position |-> 0], Ok(value),
                            DefaultReads)
    IN  RunAlone(Started(engine, ast), ast)

call_round_trip ==
    /\ subject.function = "round_trip"
    /\ outcome = None
    /\ LET shown == OutputOf(subject.byte).display
       IN  outcome' =
               Some([forwarded |-> shown,
                     stored |-> IF shown = <<>> THEN None
                                ELSE Some(get_current_cell_value(InputOf(shown[1]).memory))])
    /\ UNCHANGED <<subject, cli_vars, pair_vars, solo_vars>>

InitValues ==
    /\ source = <<>>
    /\ parser = ParserStart
    /\ parsed = None
    /\ memory = None
    /\ ast_program = None
    /\ program_counter = None
    /\ display = <<>>
    /\ input_calls = 0
    /\ input_value = None
    /\ limit_read_instructions = 0
    /\ reads = 0
    /\ position = 0
    /\ run_state = "unbuilt"
    /\ result = None
    /\ loops = <<>>
    /\ shared_ast = <<>>
    /\ engines = <<>>
    /\ matches = "run"
    /\ source_code = None
    /\ exit = None
    /\ outcome = None
    /\ \/ \E text \in Texts : subject = [function |-> "try_from", value |-> text]
       \/ \E byte \in 0..U8Max : subject = [function |-> "round_trip", byte |-> byte]

NextValues ==
    \/ call_try_from
    \/ call_round_trip

SpecValues == InitValues /\ [][NextValues]_vars

\* C26: try_from accepts exactly a decimal numeric code in [0,127], giving the
\* character with that code, or a single ASCII character, giving that
\* character; every other text is rejected, with NotValidNumericRangeValue
\* or NotValidAsciiCharacter and no third kind: a numeric value above 127
\* with the former, a text with a non-ASCII character with the latter.
C26_TryFromAcceptsTwoForms ==
    Called("try_from") =>
        LET text == subject.value
            answer == outcome.value
            code == IsWithin(text, 0, AsciiMax)
            single == ~IsNumeral(text) /\ Len(text) = 1 /\ is_ascii(text)
        IN  /\ code => answer = Ok(ProgramValue(ToNumber(Numeral(text))))
            /\ single => answer = Ok(ProgramValue(CodePoint(text[1])))
            /\ ~code /\ ~single =>
                  /\ IsErr(answer)
                  /\ answer.error \in {"NotValidNumericRangeValue", "NotValidAsciiCharacter"}
            /\ IsAbove(text, AsciiMax) => answer = Err("NotValidNumericRangeValue")
            /\ ~is_ascii(text) => answer = Err("NotValidAsciiCharacter")

ReferenceCell(tape) == tape.memory[tape.position + 1]
ReferenceStore(tape, value) == [tape EXCEPT !.memory[tape.position + 1] = value]
ReferenceStep(text, at, tape, shown, answer) ==
    LET token == text[at]
        cell == ReferenceCell(tape)
        on == [at |-> at + 1, tape |-> tape, shown |-> shown, stopped |-> FALSE]
    IN  CASE token = "+" ->
               [on EXCEPT !.tape = IF cell < U8Max THEN ReferenceStore(tape, cell + 1)
                                   ELSE tape]
          [] token = "-" ->
               [on EXCEPT !.tape = IF cell > 0 THEN ReferenceStore(tape, cell - 1)
                                   ELSE tape]
          [] token = ">" ->
               IF tape.position + 1 < Len(tape.memory)
               THEN [on EXCEPT !.tape.position = tape.position + 1]
               ELSE [on EXCEPT !.stopped = TRUE]
          [] token = "<" ->
               IF tape.position > 0
               THEN [on EXCEPT !.tape.position = tape.position - 1]
               ELSE [on EXCEPT !.stopped = TRUE]
          [] token = "." ->
               [on EXCEPT !.shown = IF cell <= AsciiMax
                                    THEN Append(shown, ProgramValue(cell))
                                    ELSE shown]
          [] token = "," ->
               [on EXCEPT !.tape = IF IsOk(answer)
                                   THEN ReferenceStore(tape, answer.value.char)
                                   ELSE tape]
          [] token = "[" ->
               [on EXCEPT !.at = IF cell # 0 THEN at + 1
                                 ELSE MatchingClose(text, at) + 1]
          [] token = "]" ->
               [on EXCEPT !.at = MatchingOpen(text, at)]

\* run dispatches one instruction in this step.
DispatchStep ==
    /\ run_state = "running"
    /\ HasNode
    /\ WithinBudget
    /\ reads' = reads + 1

RefinementStep ==
    /\ DispatchStep =>
          LET reference == ReferenceStep(Recognized(source), position + 1, memory,
                                         display, IF input_value' = None THEN None
                                                  ELSE input_value'.value)
          IN  /\ memory' = reference.tape
              /\ display' = reference.shown
              /\ (run_state' = "returned") = reference.stopped
              /\ ~reference.stopped => position' + 1 = reference.at
    /\ run_state' = "running" /\ run_state = "idle"
          => position' + 1 = 1 /\ Len(Recognized(source)) > 0
    /\ run_state = "running"
          => (HasNode <=> position + 1 <= Len(Recognized(source)))

\* C28: every instruction run dispatches leaves the tape, the cursor and the
\* values handed to the display as one step of the reference interpreter of
\* the bracket-nested text leaves them, goes on at the instruction where the
\* reference goes on, and stops where the reference stops; run begins at the
\* first instruction and is past the last node exactly when the reference is
\* past the end of the text.
C28_JumpsRefineWhileLoops == [][RefinementStep]_vars

\* `,[-]` answered with the code 1 has run the body once and left the loop.
C28_Witness ==
    /\ source = <<",", "[", "-", "]">>
    /\ run_state = "returned"
    /\ result = Some(Ok("unit"))
    /\ reads = 5
    /\ CurrentCell = 0
    /\ input_value = Some(Ok(ProgramValue(1)))


\* ========================================================== frame of a step
OtherCellsKept ==
    /\ Len(memory'.memory) = Len(memory.memory)
    /\ \A i \in 1..Len(memory.memory) :
          i # memory.position + 1 => memory'.memory[i] = memory.memory[i]
CursorKept == memory'.position = memory.position
CellsKept == memory'.memory = memory.memory
OneCursorStep ==
    \/ memory'.position = memory.position
    \/ memory'.position = memory.position + 1
    \/ memory'.position = memory.position - 1

FrameStep ==
    DispatchStep =>
        LET arm == Arm(CurrentNode)
        IN  /\ arm \in {"IncrementByOneCurrentCell", "DecrementByOneCurrentCell",
                        "InputCommand"}
                  => CursorKept /\ OtherCellsKept
            /\ arm \in {"MovePointerRight", "MovePointerLeft"}
                  => CellsKept /\ OneCursorStep
            /\ arm \in {"OutputCommand", "Loop", "LoopEnd"}
                  => memory' = memory
            /\ arm \in {"IncrementByOneCurrentCell", "DecrementByOneCurrentCell",
                        "InputCommand", "MovePointerRight", "MovePointerLeft",
                        "OutputCommand", "Loop", "LoopEnd"}

\* C29: an increment, a decrement or an input changes at most the cell under
\* the cursor and leaves the cursor and every other cell as they were; a move
\* right or left leaves every cell as it was and moves the cursor by at most
\* one; an output, a loop-start or a loop-end leaves the cells and the cursor
\* as they were.
C29_OneCellOrOneCursorStep == [][FrameStep]_vars

\* `>+` on a zeroed tape of two cells: the increment changed the second cell
\* alone.
C29_Witness ==
    /\ run_state = "running"
    /\ program_counter = Some("IncrementByOneCurrentCell")
    /\ memory = [memory |-> <<0, 1>>, position |-> 1]
    /\ reads = 2


KindOf(node) == node.operation

CounterStep ==
    DispatchStep /\ run_state' = "running"
        => program_counter' = Some(KindOf(CurrentNode))

\* C31: after every instruction dispatched with success, program_counter is
\* the kind of that instruction, for each of the eight kinds, input,
\* loop-start and loop-end among them.
C31_ProgramCounterIsLastKind == [][CounterStep]_vars


\* ===================================================== one node per symbol
\* The operation each recognized character stands for.
OperationOf(token) ==
    CASE token = ">" -> "MovePointerRight"
      [] token = "<" -> "MovePointerLeft"
      [] token = "+" -> "IncrementByOneCurrentCell"
      [] token = "-" -> "DecrementByOneCurrentCell"
      [] token = "." -> "OutputCommand"
      [] token = "," -> "InputCommand"
      [] token = "[" -> "LoopStart"
      [] token = "]" -> "LoopEnd"
StraightTokens == {">", "<", "+", "-", ".", ","}

\* C32: when from_source_to_node_ast succeeds, the node sequence has one node
\* per recognized character, in the order of the source: the node at index i
\* carries the operation of the i-th recognized character, and when that is
\* a move, an increment, a decrement, an input or an output the node is a
\* Command with next_position = i + 1 (indices from 0).
C32_OneNodePerRecognizedCharacter ==
    ParsedOk =>
        LET text == Recognized(source)
            ast == ParsedAst
        IN  /\ Len(ast) = Len(text)
            /\ \A k \in 1..Len(text) :
                  /\ ast[k].operation = OperationOf(text[k])
                  /\ text[k] \in StraightTokens
                        => ast[k] = [node |-> "Command",
                                     operation |-> OperationOf(text[k]),
                                     next_position |-> (k - 1) + 1]

\* A parsed source with a comment before two different straight-line
\* instructions.
C32_Witness ==
    /\ ParsedOk
    /\ Len(ParsedAst) < Len(source)
    /\ \E k \in 2..Len(ParsedAst) :
          /\ ParsedAst[k].node = "Command"
          /\ ParsedAst[k - 1].node = "Command"
          /\ ParsedAst[k].operation \notin {"LoopEnd", ParsedAst[k - 1].operation}
          /\ ParsedAst[k - 1].operation # "LoopEnd"
          /\ source[1] = "x"


\* ===================================================== targets within reach
\* The jump targets a node stores.
Targets(node) ==
    IF node.node = "Loop"
    THEN {node.next_position_as_true, node.next_position_as_false}
    ELSE {node.next_position}
Loaded == ast_program # None /\ run_state \in {"running", "returned"}
    /\ ~IsEmptyAST(ast_program)

\* C33: every jump target stored in a node of a parsed program of n nodes is
\* in 0..n; the position of a run stays in 0..n, and a run that left the
\* dispatch loop for want of a node, returning Ok, stands at n.
C33_TargetsAndPositionWithinProgram ==
    /\ (parsed # None /\ IsOk(parsed.value))
          => \A k \in 1..Len(parsed.value.value) :
                \A target \in Targets(parsed.value.value[k]) :
                   target \in 0..Len(parsed.value.value)
    /\ Loaded => position \in 0..Len(ast_program.value)
    /\ (Loaded /\ run_state = "returned" /\ result = Some(Ok("unit")))
          => position = Len(ast_program.value)

\* A run has left through the false target of a loop that closes the
\* program: the target is n and the run returned Ok at n.
C33_Witness ==
    /\ Loaded
    /\ run_state = "returned"
    /\ result = Some(Ok("unit"))
    /\ position = Len(ast_program.value)
    /\ reads >= 2
    /\ \E k \in 2..Len(ast_program.value) :
          /\ IsLoopNode(ast_program.value[k])
          /\ ast_program.value[k].next_position_as_false = Len(ast_program.value)


\* ============================================================ run, again
\* run called twice on one interpreter: the programs, tapes and inputs tried.
AgainSources ==
    {text \in FileSources : IsOk(from_source_to_node_ast(text))}
AgainTapes == UNION {Tapes(size) : size \in 1..MaxTape}
AgainSubjects ==
    {[function |-> "run_again", program |-> text, tape |-> tape, answer |-> answer]
        : text \in AgainSources, tape \in AgainTapes, answer \in EngineAnswers}
AgainProgram == from_source_to_node_ast(subject.program).value

\* Interpreter::new, load_ast_program and the first run().
FirstRun ==
    /\ subject.function = "run_again"
    /\ outcome = None
    /\ LET engine == NewEngine(subject.tape, subject.answer, MaxReads)
       IN  outcome' = Some(<<RunAlone(Started(engine, AgainProgram), AgainProgram)>>)
    /\ UNCHANGED <<subject, cli_vars, pair_vars, solo_vars>>

\* run() once more on the same interpreter: the interpreter as the head of
\* run leaves it, and as run returns it.
SecondRun ==
    /\ subject.function = "run_again"
    /\ outcome # None
    /\ Len(outcome.value) = 1
    /\ LET restarted == Started(outcome.value[1], AgainProgram)
       IN  outcome' = Some(<<outcome.value[1], restarted,
                             RunAlone(restarted, AgainProgram)>>)
    /\ UNCHANGED <<subject, cli_vars, pair_vars, solo_vars>>

InitAgain ==
    /\ source = <<>>
    /\ parser = ParserStart
    /\ parsed = None
    /\ memory = None
    /\ ast_program = None
    /\ program_counter = None
    /\ display = <<>>
    /\ input_calls = 0
    /\ input_value = None
    /\ limit_read_instructions = 0
    /\ reads = 0
    /\ position = 0
    /\ run_state = "unbuilt"
    /\ result = None
    /\ loops = <<>>
    /\ shared_ast = <<>>
    /\ engines = <<>>
    /\ matches = "run"
    /\ source_code = None
    /\ exit = None
    /\ outcome = None
    /\ subject \in AgainSubjects

NextAgain ==
    \/ FirstRun
    \/ SecondRun

SpecAgain == InitAgain /\ [][NextAgain]_vars

RanTwice == Called("run_again") /\ Len(outcome.value) = 3

\* C34: a second run on the same interpreter of a loaded program starts at
\* position 0 with the cells and the cursor the first run left, and goes on
\* from there as a run on a new interpreter built on that tape would, adding
\* to what the display was handed.
C34_SecondRunKeepsTheTape ==
    (RanTwice /\ AgainProgram # <<>>) =>
        LET first == outcome.value[1]
            restarted == outcome.value[2]
            second == outcome.value[3]
            onward == RunAlone(Started(NewEngine(first.memory, subject.answer, MaxReads),
                                       AgainProgram), AgainProgram)
        IN  /\ restarted.position = 0
            /\ restarted.run_state = "running"
            /\ restarted.memory = first.memory
            /\ second.result = onward.result
            /\ second.memory = onward.memory
            /\ second.display = first.display \o onward.display

\* `>` on a zeroed tape of two cells: the first run returned Ok with the
\* cursor on the last cell, the second failed on the move, as no run from a
\* zeroed tape with the cursor on cell 0 does.
C34_Witness ==
    /\ RanTwice
    /\ subject.program = <<">">>
    /\ subject.tape = BrainfuckMemoryNew(2)
    /\ outcome.value[1].result = Some(Ok("unit"))
    /\ outcome.value[1].memory.position = 1
    /\ outcome.value[3].result = Some(Err("OutOfRangeMemoryAccess"))

====
